---- MODULE Spec2Model ----
(***************************************************************************)
(* Tudr add-on: review logging, weak-note tagging and the daily report.    *)
(*                                                                         *)
(* The model covers qt/aqt/tudr_analytics.py (class TudrAnalytics and the  *)
(* module-level entry points) and qt/aqt/tudr_features.py (the reviewer    *)
(* hook).  Every handler is one atomic action: the host runs them on the   *)
(* GUI thread, and one handler reads a single value of the wall clock.     *)
(* A clock value, like an ISO timestamp "YYYY-MM-DDTHH:MM:SS", is a date   *)
(* and a time of day; dates are numbered, and the time of day is midnight  *)
(* (0) or later (1).  strftime("%Y-%m-%d") and the slice timestamp[:10]    *)
(* both keep the date.                                                     *)
(***************************************************************************)
EXTENDS Integers, Sequences, FiniteSets, TLC

\* ------------------------------------------------------------------ bounds
MaxDay == 3           \* last calendar day the clock reaches (it starts on day 1)
MaxSessions == 2      \* longest review_sessions list
MaxReviewLog == 2     \* longest _review_log list
NumCards == 2         \* cards of the collection
MaxRuns == 2          \* cap of the per-day counters of issued reports
MaxDecks == 3         \* most decks the collection holds
MaxFailed == 3        \* longest failed-card list handed to get_weak_topics
MaxCorrect == 9       \* most correct answers of the day a report is made for
MaxSends == 2         \* most messages the user sends in the tutor dialog

\* --------------------------------------------------------------- constants
None == 0             \* Optional[str] None of last_report_date: no date
DefaultTimeTaken == 0 \* log_review(mw, card, ease, time_taken=0)
Again == 1            \* the ease of the "Again" button: the answer was wrong

Cards == 1..NumCards
\* the code reads an ease only through ease == 1 and ease > 1
Eases == {Again, Again + 1}
TimesOfDay == {0, 1}

\* card.note(): card 1 is note 1; cards 2 and 3 are siblings of note 2, ...
NoteOf(card) == card \div 2 + 1
Notes == {NoteOf(c) : c \in Cards}

VARIABLES
    now,               \* the wall clock: [date, tod]
    inst,              \* _analytics_instance is not None
    review_sessions,   \* TudrAnalytics.review_sessions
    last_report_date,  \* TudrAnalytics.last_report_date (None or a date)
    conf,              \* col.conf.get("tudrAnalytics", {}), as persisted
    review_log,        \* tudr_features._review_log
    tags,              \* per note: note.has_tag(_WEAK_TAG)
    tags0,             \* history: the tags at the start
    again,             \* history: notes one of whose cards was answered with ease 1
    generated,         \* history: reports computed on the current date
    presented,         \* history: reports shown in the dialog on the current date
    ret,               \* what the last handler did and returned
    decks,             \* col.decks: deck id -> deck
    args,              \* the arguments of a call of a method that reads no state
    out,               \* what that call returned
    messages,          \* TutorDialog._messages (empty: no dialog was opened)
    tasks              \* the _ask_openai calls, in order: worker and done of each

\* the state outside the analytics instance, the tags and the logs
deckVars == <<decks>>

\* the arguments and the result of the methods checked on their own
callVars == <<args, out>>

\* the tutor dialog: tudr_tutor.py
tutorVars == <<messages, tasks>>

vars == <<now, inst, review_sessions, last_report_date, conf, review_log,
          tags, tags0, again, generated, presented, ret, deckVars,
          callVars, tutorVars>>

\* ------------------------------------------------------------ pure helpers
\* strftime("%Y-%m-%d") of a clock value; timestamp[:10] of an ISO timestamp
DateOf(ts) == ts.date

\* (mutant) the timedelta is forgotten: the window is today
DayBefore_today(clock) == clock

\* datetime.now() - timedelta(days=1)
DayBefore(clock) == [clock EXCEPT !.date = @ - 1]

\* (datetime.now() - timedelta(days=1)).strftime("%Y-%m-%d")
Yesterday(clock) == DateOf(DayBefore(clock))

\* (mutant) the new review replaces the list
AppendSession_replace(sessions, review_data) == <<review_data>>

\* self.review_sessions.append(review_data)
AppendSession(sessions, review_data) == Append(sessions, review_data)

\* ------------------------------------------------------------------ text
\* a str is the sequence of its characters
UpperCase == <<"A", "B", "C", "D", "E", "F", "G", "H", "I", "J", "K", "L", "M",
               "N", "O", "P", "Q", "R", "S", "T", "U", "V", "W", "X", "Y", "Z">>
LowerCase == <<"a", "b", "c", "d", "e", "f", "g", "h", "i", "j", "k", "l", "m",
               "n", "o", "p", "q", "r", "s", "t", "u", "v", "w", "x", "y", "z">>

LowerChar(c) ==
    IF \E i \in DOMAIN UpperCase : UpperCase[i] = c
    THEN LowerCase[CHOOSE i \in DOMAIN UpperCase : UpperCase[i] = c]
    ELSE c

\* str.lower()
lower(text) == [i \in 1..Len(text) |-> LowerChar(text[i])]

\* keyword in text
Contains(text, keyword) ==
    \E i \in 0..(Len(text) - Len(keyword)) :
        SubSeq(text, i + 1, i + Len(keyword)) = keyword

RECURSIVE lstrip(_)
lstrip(text) ==
    IF text # <<>> /\ Head(text) = " " THEN lstrip(Tail(text)) ELSE text

RECURSIVE rstrip(_)
rstrip(text) ==
    IF text # <<>> /\ text[Len(text)] = " "
    THEN rstrip(SubSeq(text, 1, Len(text) - 1)) ELSE text

\* str.strip()
strip(text) == rstrip(lstrip(text))

\* the deck names and note type names of the collection
DefaultDeckName == <<"D", "e", "f", "a", "u", "l", "t">>
MathDeckName == <<"M", "a", "t", "h">>
UnknownDeck == <<"U", "n", "k", "n", "o", "w", "n", " ", "D", "e", "c", "k">>
Basic == <<"B", "a", "s", "i", "c">>
Vocab == <<"V", "o", "c", "a", "b">>
NoteTypes == {Basic, Vocab}

\* col.decks.get(deck_id) for the decks cards live in; deck 3 was deleted
DeckNames == <<DefaultDeckName, MathDeckName>>
DeckIds == DOMAIN DeckNames \cup {Len(DeckNames) + 1}

\* card.current_deck_id(): card 1 is in the "Math" deck, the others in "Default"
DeckIdOf(card) == IF card = 1 THEN 2 ELSE 1

\* card.note_type()["name"]: even cards are "Vocab" notes, odd cards "Basic"
NoteTypeOf(card) == IF card % 2 = 0 THEN Vocab ELSE Basic

\* the dict built by log_card_review; the question and answer text of a
\* card is named by the card
ReviewData(card, ease, time_taken, clock) ==
    [cardId |-> card, ease |-> ease, timeTaken |-> time_taken,
     timestamp |-> clock, deckId |-> DeckIdOf(card), question |-> card,
     noteType |-> NoteTypeOf(card), isCorrect |-> ease > Again]

\* (mutant) a failed session is put at the head of the failed list
PerfStep_prepend(acc, session, yesterday) ==
    IF DateOf(session.timestamp) = yesterday
    THEN [totalCards |-> acc.totalCards + 1,
          totalTime |-> acc.totalTime + session.timeTaken,
          correctCards |-> IF session.isCorrect THEN acc.correctCards + 1
                           ELSE acc.correctCards,
          failedCardData |-> IF session.isCorrect THEN acc.failedCardData
                             ELSE <<session>> \o acc.failedCardData]
    ELSE acc

\* the loop body of get_yesterday_performance, for one session
PerfStep(acc, session, yesterday) ==
    IF DateOf(session.timestamp) = yesterday
    THEN [totalCards |-> acc.totalCards + 1,
          totalTime |-> acc.totalTime + session.timeTaken,
          correctCards |-> IF session.isCorrect THEN acc.correctCards + 1
                           ELSE acc.correctCards,
          failedCardData |-> IF session.isCorrect THEN acc.failedCardData
                             ELSE Append(acc.failedCardData, session)]
    ELSE acc

RECURSIVE PerfLoop(_, _, _, _)
PerfLoop(sessions, i, acc, yesterday) ==
    IF i > Len(sessions) THEN acc
    ELSE PerfLoop(sessions, i + 1, PerfStep(acc, sessions[i], yesterday), yesterday)

\* correct_cards / total_cards * 100, kept as the exact fraction
\* num / den: the float it stands for is compared with whole numbers only
Percent(part, whole) == [num |-> part * 100, den |-> whole]

get_yesterday_performance(sessions, clock) ==
    LET acc == PerfLoop(sessions, 1,
                        [totalCards |-> 0, totalTime |-> 0, correctCards |-> 0,
                         failedCardData |-> <<>>],
                        Yesterday(clock))
    IN [totalCards |-> acc.totalCards,
        correctCards |-> acc.correctCards,
        failedCards |-> Len(acc.failedCardData),
        accuracy |-> IF acc.totalCards > 0
                     THEN Percent(acc.correctCards, acc.totalCards)
                     ELSE Percent(0, 1),
        totalTime |-> acc.totalTime,
        failedCardData |-> acc.failedCardData]

\* ------------------------------------------------- persistence, singleton
NoConf == [present |-> FALSE, reviewSessions |-> <<>>, lastReportDate |-> None]

\* _load_analytics_data: the two config.get calls with their defaults
LoadSessions(c) == IF c.present THEN c.reviewSessions ELSE <<>>
LoadMarker(c) == IF c.present THEN c.lastReportDate ELSE None

\* (mutant) lastReportDate is left out of the saved config
SavedConf_no_marker(sessions, marker) ==
    [present |-> TRUE, reviewSessions |-> sessions, lastReportDate |-> None]

\* (mutant) the config is saved with the sessions loaded at start-up, not
\* the current list
SavedConf_stale_sessions(sessions, marker) ==
    [present |-> TRUE, reviewSessions |-> <<>>, lastReportDate |-> marker]

\* _save_analytics_data
SavedConf(sessions, marker) ==
    [present |-> TRUE, reviewSessions |-> sessions, lastReportDate |-> marker]

\* get_analytics(mw): the instance's fields, loaded on first use
CurSessions == IF inst THEN review_sessions ELSE LoadSessions(conf)
CurMarker == IF inst THEN last_report_date ELSE LoadMarker(conf)

\* ------------------------------------------------------ the report guard
\* (mutant) the marker is compared with None instead of today
should_show_never_resets(sessions, marker, clock) ==
    /\ marker = None
    /\ get_yesterday_performance(sessions, clock).totalCards > 0

should_show_daily_report(sessions, marker, clock) ==
    /\ marker # DateOf(clock)
    /\ get_yesterday_performance(sessions, clock).totalCards > 0

\* (mutant) the report is returned without updating last_report_date
generate_keeps_marker(sessions, marker, clock) ==
    IF marker = DateOf(clock)
    THEN [kind |-> "already", marker |-> marker, computed |-> FALSE, saved |-> FALSE]
    ELSE IF get_yesterday_performance(sessions, clock).totalCards = 0
    THEN [kind |-> "nocards", marker |-> marker, computed |-> FALSE, saved |-> FALSE]
    ELSE [kind |-> "report", marker |-> marker, computed |-> TRUE, saved |-> TRUE]

\* (mutant) the totalCards == 0 early return is missing
generate_without_empty_check(sessions, marker, clock) ==
    IF marker = DateOf(clock)
    THEN [kind |-> "already", marker |-> marker, computed |-> FALSE, saved |-> FALSE]
    ELSE [kind |-> "report", marker |-> DateOf(clock), computed |-> TRUE, saved |-> TRUE]

\* generate_daily_report: the kind of text returned, the marker afterwards,
\* whether get_weak_topics and _format_daily_report ran, and whether
\* _save_analytics_data ran
generate_daily_report(sessions, marker, clock) ==
    IF marker = DateOf(clock)
    THEN [kind |-> "already", marker |-> marker, computed |-> FALSE, saved |-> FALSE]
    ELSE IF get_yesterday_performance(sessions, clock).totalCards = 0
    THEN [kind |-> "nocards", marker |-> marker, computed |-> FALSE, saved |-> FALSE]
    ELSE [kind |-> "report", marker |-> DateOf(clock), computed |-> TRUE, saved |-> TRUE]

\* ------------------------------------------------------------ the tagger
\* (mutant) the has_tag test is missing: the tag is always written
tag_note_always(has_tag) == [tag |-> TRUE, wrote |-> TRUE]

\* _tag_note: the note's tag afterwards and whether add_tag and flush ran
tag_note(has_tag) ==
    IF ~has_tag THEN [tag |-> TRUE, wrote |-> TRUE]
    ELSE [tag |-> has_tag, wrote |-> FALSE]

\* (mutant) "Hard" counts as a weakness too
IsWeakAnswer_hard(ease) == ease <= Again + 1

\* the condition of _on_card_answered under which the note is tagged
IsWeakAnswer(ease) == ease = Again

\* ------------------------------------------------------------ weak topics
Unknown == <<"U", "n", "k", "n", "o", "w", "n">>

SubjectKeywords ==
    {<<"m", "a", "t", "h">>, <<"s", "c", "i", "e", "n", "c", "e">>,
     <<"h", "i", "s", "t", "o", "r", "y">>,
     <<"l", "a", "n", "g", "u", "a", "g", "e">>,
     <<"b", "i", "o", "l", "o", "g", "y">>,
     <<"c", "h", "e", "m", "i", "s", "t", "r", "y">>,
     <<"p", "h", "y", "s", "i", "c", "s">>}

NoteTypeKeywords ==
    {<<"v", "o", "c", "a", "b">>, <<"g", "r", "a", "m", "m", "a", "r">>,
     <<"f", "o", "r", "m", "u", "l", "a">>, <<"c", "o", "n", "c", "e", "p", "t">>}

\* response.choices[0].message.content of the classifier for a card text:
\* "Algebra" for the text of card 1, "Math " for every other text
ServiceContent(card_text) ==
    IF card_text = 1 THEN <<"A", "l", "g", "e", "b", "r", "a">>
    ELSE <<"M", "a", "t", "h", " ">>

\* how the classifier can behave: the openai import worked or not, and a
\* request is answered or raises
Services == [available : BOOLEAN, request : {"answers", "raises"}]
ApiKeys == {"", "sk"}

\* _get_deck_name
get_deck_name(deck_id) ==
    IF deck_id \in DOMAIN DeckNames THEN DeckNames[deck_id] ELSE UnknownDeck

\* (mutant) the request is made outside try/except
classify_without_except(card_text, api_key, service) ==
    IF ~service.available \/ api_key = ""
    THEN [topic |-> Unknown, raised |-> FALSE]
    ELSE IF service.request = "raises"
    THEN [topic |-> Unknown, raised |-> TRUE]
    ELSE [topic |-> strip(ServiceContent(card_text)), raised |-> FALSE]

\* classify_card_topic: the label, and whether an exception left the method
classify_card_topic(card_text, api_key, service) ==
    IF ~service.available \/ api_key = ""
    THEN [topic |-> Unknown, raised |-> FALSE]
    ELSE IF service.request = "raises"
    THEN [topic |-> Unknown, raised |-> FALSE]
    ELSE [topic |-> strip(ServiceContent(card_text)), raised |-> FALSE]

\* the if/elif/else of the loop of get_weak_topics, for one failed card
TopicOf(card_data, api_key, service) ==
    LET note_type == card_data.noteType
        deck_name == get_deck_name(card_data.deckId) IN
    IF \E keyword \in SubjectKeywords : Contains(lower(deck_name), keyword)
    THEN [topic |-> deck_name, raised |-> FALSE]
    ELSE IF \E keyword \in NoteTypeKeywords : Contains(lower(note_type), keyword)
    THEN [topic |-> note_type, raised |-> FALSE]
    ELSE classify_card_topic(card_data.question, api_key, service)

\* topic_counts[topic] += 1 on a defaultdict(int): a dict keeps its keys in
\* the order of their first insertion
CountTopic(topic_counts, topic) ==
    IF \E i \in DOMAIN topic_counts : topic_counts[i].topic = topic
    THEN [i \in DOMAIN topic_counts |->
             IF topic_counts[i].topic = topic
             THEN [topic_counts[i] EXCEPT !.count = @ + 1]
             ELSE topic_counts[i]]
    ELSE Append(topic_counts, [topic |-> topic, count |-> 1])

\* the loop of get_weak_topics from card i on; topics is the label given to
\* each card so far
RECURSIVE TopicLoop(_, _, _, _, _)
TopicLoop(failed_cards, i, acc, api_key, service) ==
    IF i > Len(failed_cards) \/ acc.raised THEN acc
    ELSE LET t == TopicOf(failed_cards[i], api_key, service) IN
         TopicLoop(failed_cards, i + 1,
                   IF t.raised THEN [acc EXCEPT !.raised = TRUE]
                   ELSE [topic_counts |-> CountTopic(acc.topic_counts, t.topic),
                         topics |-> Append(acc.topics, t.topic),
                         raised |-> FALSE],
                   api_key, service)

\* (mutant) an item goes before the items of its own count
InsertByCount_before_equal(items, item) ==
    LET k == Cardinality({i \in DOMAIN items : items[i].count > item.count}) IN
    SubSeq(items, 1, k) \o <<item>> \o SubSeq(items, k + 1, Len(items))

\* one item put into a list sorted by count, descending: behind every item
\* whose count is not smaller, as the stable sort of sorted(..., reverse=True)
\* leaves items of equal keys in their original order
InsertByCount(items, item) ==
    LET k == Cardinality({i \in DOMAIN items : items[i].count >= item.count}) IN
    SubSeq(items, 1, k) \o <<item>> \o SubSeq(items, k + 1, Len(items))

\* sorted(topic_counts.items(), key=lambda x: x[1], reverse=True)
RECURSIVE SortedByCount(_, _, _)
SortedByCount(items, i, acc) ==
    IF i > Len(items) THEN acc
    ELSE SortedByCount(items, i + 1, InsertByCount(acc, items[i]))

\* get_weak_topics: the dict returned, as its items in order; the label of
\* each failed card; whether an exception left the method
get_weak_topics(failed_cards, api_key, service) ==
    IF failed_cards = <<>>
    THEN [weak_topics |-> <<>>, topics |-> <<>>, raised |-> FALSE]
    ELSE LET acc == TopicLoop(failed_cards, 1,
                              [topic_counts |-> <<>>, topics |-> <<>>,
                               raised |-> FALSE],
                              api_key, service) IN
         [weak_topics |-> IF acc.raised THEN <<>>
                          ELSE SortedByCount(acc.topic_counts, 1, <<>>),
          topics |-> acc.topics,
          raised |-> acc.raised]

\* ------------------------------------------------------------ report text
\* accuracy >= percent
AtLeast(accuracy, percent) == accuracy.num >= percent * accuracy.den

\* (mutant) the first threshold is tested with > instead of >=
Encouragement_above(accuracy) ==
    IF accuracy.num > 90 * accuracy.den THEN "excellent"
    ELSE IF AtLeast(accuracy, 75) THEN "good"
    ELSE "keep_going"

\* the if/elif/else on accuracy of _format_daily_report
Encouragement(accuracy) ==
    IF AtLeast(accuracy, 90) THEN "excellent"
    ELSE IF AtLeast(accuracy, 75) THEN "good"
    ELSE "keep_going"

\* one "• {topic}: {count} mistake(s)" line
TopicLine(item) ==
    [topic |-> item.topic, count |-> item.count, plural |-> item.count > 1]

\* _format_daily_report: the numbers of the header, the lines of the topic
\* section (none when weak_topics is empty), and the paragraphs that follow
format_daily_report(performance, weak_topics) ==
    LET total == performance.totalCards
        correct == performance.correctCards
        failed == performance.failedCards
        accuracy == performance.accuracy
        top == SubSeq(weak_topics, 1, IF Len(weak_topics) < 3
                                      THEN Len(weak_topics) ELSE 3)
    IN [total |-> total, correct |-> correct, failed |-> failed,
        areas |-> [i \in DOMAIN top |-> TopicLine(top[i])],
        closing |-> <<Encouragement(accuracy)>>
                    \o (IF failed > 0 THEN <<"practice_deck">> ELSE <<>>)]

\* ------------------------------------------------------ the practice deck
TudrDeckName == "Tudr - Daily Practice"

\* a deck that is not filtered, or a filtered deck never built
NoSearch == [field |-> "none", ids |-> <<>>]

\* the collection's decks before the add-on has made one: the host's
\* "Default" deck only
NoTudrDeck ==
    [d \in {1} |-> [name |-> "Default", filtered |-> FALSE,
                    search |-> NoSearch, arg |-> 0]]

\* the collaborator calls of _create_practice_deck that can raise
Faults == {"none", "lookup", "create", "rebuild"}

\* from aqt.utils import tooltip: tudr_analytics.py has no such import, and
\* the name is bound nowhere else in the module
TooltipImported == FALSE

\* tooltip(msg): the short message shown, or the NameError of the unbound name
Tooltip(msg) ==
    IF TooltipImported THEN [shown |-> msg, raised |-> FALSE]
    ELSE [shown |-> "none", raised |-> TRUE]

\* card_ids = [str(card["cardId"]) ...]; search_query = f"cid:{','.join(card_ids)}"
SearchQuery(failed_cards) ==
    [field |-> "cid", ids |-> [i \in 1..Len(failed_cards) |-> failed_cards[i].cardId]]

\* the ids of the decks called name
DecksNamed(ds, name) == {d \in DOMAIN ds : ds[d].name = name}

\* (mutant) the loop looks for the name of the tooltip text, "Tudr Practice
\* Deck", which no deck has
FindDeck_other_name(ds, name) ==
    IF DecksNamed(ds, "Tudr Practice Deck") = {} THEN None
    ELSE CHOOSE d \in DecksNamed(ds, "Tudr Practice Deck") :
             \A e \in DecksNamed(ds, "Tudr Practice Deck") : d <= e

\* the loop of _get_or_create_tudr_deck over col.decks.decks.items(): the
\* first deck called name, or None when the loop ends without a return
FindDeck(ds, name) ==
    IF DecksNamed(ds, name) = {} THEN None
    ELSE CHOOSE d \in DecksNamed(ds, name) : \A e \in DecksNamed(ds, name) : d <= e

\* col.decks.new_filtered(name): a new, empty filtered deck under a fresh id
new_filtered(ds, name) ==
    LET id == Cardinality(DOMAIN ds) + 1 IN
    [decks |-> [d \in DOMAIN ds \cup {id} |->
                   IF d = id
                   THEN [name |-> name, filtered |-> TRUE,
                         search |-> NoSearch, arg |-> 0]
                   ELSE ds[d]],
     deck_id |-> id]

\* col.sched.rebuild_filtered_deck(deck_id, search_query, 0): the deck's
\* definition becomes what the call passes
rebuild_filtered_deck(ds, deck_id, search_query, arg) ==
    [ds EXCEPT ![deck_id].search = search_query, ![deck_id].arg = arg]

\* (mutant) the lookup loop is missing: a deck is created on every call
get_or_create_always_new(ds) ==
    LET n == new_filtered(ds, TudrDeckName) IN
    [decks |-> n.decks, deck_id |-> n.deck_id, created |-> TRUE]

\* _get_or_create_tudr_deck: the decks afterwards, the id returned and
\* whether new_filtered ran
get_or_create_tudr_deck(ds) ==
    LET found == FindDeck(ds, TudrDeckName)
        n == new_filtered(ds, TudrDeckName) IN
    IF found # None
    THEN [decks |-> ds, deck_id |-> found, created |-> FALSE]
    ELSE [decks |-> n.decks, deck_id |-> n.deck_id, created |-> TRUE]

\* _create_practice_deck; fault names the collaborator call that raises if
\* the method reaches it.  The result holds the decks afterwards, the deck
\* id obtained, whether a deck was created and rebuilt, whether a
\* collaborator raised (failed), the tooltip on the screen (shown) and
\* whether an exception left the method (raised).
create_practice_deck(sessions, clock, ds, fault) ==
    LET failed_cards == get_yesterday_performance(sessions, clock).failedCardData
        g == get_or_create_tudr_deck(ds)
        added == Tooltip("added")
        error == Tooltip("error")
        nocards == Tooltip("nocards")
    IN
    IF failed_cards = <<>>
    THEN [decks |-> ds, deck_id |-> None, created |-> FALSE, rebuilt |-> FALSE,
          failed |-> FALSE, shown |-> nocards.shown, raised |-> nocards.raised]
    ELSE IF fault = "lookup" \/ (fault = "create" /\ g.created)
    THEN [decks |-> ds, deck_id |-> None, created |-> FALSE, rebuilt |-> FALSE,
          failed |-> TRUE, shown |-> error.shown, raised |-> error.raised]
    ELSE IF fault = "rebuild"
    THEN [decks |-> g.decks, deck_id |-> g.deck_id, created |-> g.created,
          rebuilt |-> FALSE,
          failed |-> TRUE, shown |-> error.shown, raised |-> error.raised]
    ELSE [decks |-> rebuild_filtered_deck(g.decks, g.deck_id,
                                          SearchQuery(failed_cards), 0),
          deck_id |-> g.deck_id, created |-> g.created, rebuilt |-> TRUE,
          failed |-> FALSE,
          shown |-> IF added.raised THEN error.shown ELSE added.shown,
          raised |-> added.raised /\ error.raised]

\* ------------------------------------------------------------------ state
\* no call of a method checked on its own
NoCall == [op |-> "none"]

Ret(op, kind, computed, shown, raised, wrote) ==
    [op |-> op, kind |-> kind, computed |-> computed, shown |-> shown,
     raised |-> raised, wrote |-> wrote]

\* the add-on's state after the modules are imported
InitState ==
    /\ now = [date |-> 1, tod |-> 0]
    /\ inst = FALSE
    /\ review_sessions = <<>>
    /\ last_report_date = None
    /\ conf = NoConf
    /\ review_log = <<>>
    /\ tags \in [Notes -> BOOLEAN]
    /\ tags0 = tags
    /\ again = {}
    /\ generated = 0
    /\ presented = 0
    /\ ret = Ret("init", "none", FALSE, "none", FALSE, FALSE)
    /\ decks = NoTudrDeck
    /\ messages = <<>>
    /\ tasks = <<>>

Init ==
    /\ InitState
    /\ args = NoCall
    /\ out = NoCall

\* the wall clock advances (it never goes back); the per-date history
\* counters start again on a new date
Tick ==
    /\ now' = IF now.tod + 1 \in TimesOfDay
               THEN [now EXCEPT !.tod = @ + 1]
               ELSE [date |-> now.date + 1, tod |-> 0]
    /\ now'.date <= MaxDay
    /\ generated' = IF now'.date = now.date THEN generated ELSE 0
    /\ presented' = IF now'.date = now.date THEN presented ELSE 0
    /\ ret' = Ret("tick", "none", FALSE, "none", FALSE, FALSE)
    /\ UNCHANGED <<inst, review_sessions, last_report_date, conf, review_log,
                   tags, tags0, again>>
    /\ UNCHANGED <<deckVars, callVars, tutorVars>>

\* the host process ends and starts again: module globals are reset
Restart ==
    /\ inst' = FALSE
    /\ review_sessions' = <<>>
    /\ last_report_date' = None
    /\ review_log' = <<>>
    /\ ret' = Ret("restart", "none", FALSE, "none", FALSE, FALSE)
    /\ UNCHANGED <<now, conf, tags, tags0, again, generated, presented>>
    /\ UNCHANGED <<deckVars, callVars, tutorVars>>

\* log_review(mw, card, ease, time_taken)
LogReview(card, ease) ==
    /\ Len(CurSessions) < MaxSessions
    /\ inst' = TRUE
    /\ review_sessions' = AppendSession(CurSessions,
                                        ReviewData(card, ease, DefaultTimeTaken, now))
    /\ last_report_date' = CurMarker
    /\ conf' = SavedConf(review_sessions', last_report_date')
    /\ ret' = Ret("log_review", "none", FALSE, "none", FALSE, FALSE)
    /\ UNCHANGED <<now, review_log, tags, tags0, again, generated, presented>>
    /\ UNCHANGED <<deckVars, callVars, tutorVars>>

\* get_analytics(mw).should_show_daily_report()
ShouldShowDailyReport ==
    /\ inst' = TRUE
    /\ review_sessions' = CurSessions
    /\ last_report_date' = CurMarker
    /\ ret' = Ret("should_show",
                  IF should_show_daily_report(CurSessions, CurMarker, now)
                  THEN "true" ELSE "false",
                  FALSE, "none", FALSE, FALSE)
    /\ UNCHANGED <<now, conf, review_log, tags, tags0, again, generated, presented>>
    /\ UNCHANGED <<deckVars, callVars, tutorVars>>

\* the state change of generate_daily_report with result g
Generated(g) ==
    /\ inst' = TRUE
    /\ review_sessions' = CurSessions
    /\ last_report_date' = g.marker
    /\ conf' = IF g.saved THEN SavedConf(review_sessions', last_report_date') ELSE conf
    /\ generated' = IF g.kind = "report" THEN generated + 1 ELSE generated

\* get_analytics(mw).generate_daily_report()
GenerateDailyReport ==
    LET g == generate_daily_report(CurSessions, CurMarker, now) IN
    /\ g.kind = "report" => generated < MaxRuns
    /\ Generated(g)
    /\ ret' = Ret("generate", g.kind, g.computed, "none", FALSE, FALSE)
    /\ UNCHANGED <<now, review_log, tags, tags0, again, presented>>
    /\ UNCHANGED <<deckVars, callVars, tutorVars>>

\* show_daily_report_dialog: generate_daily_report, then the Qt dialog is
\* built and run; shows = FALSE is a Qt call raising before dialog.exec()
ShowDialog(op, shows) ==
    LET g == generate_daily_report(CurSessions, CurMarker, now) IN
    /\ g.kind = "report" => generated < MaxRuns
    /\ Generated(g)
    /\ presented' = IF shows /\ g.kind = "report"
                    THEN presented + 1 ELSE presented
    /\ ret' = Ret(op, g.kind, g.computed, IF shows THEN g.kind ELSE "none",
                  ~shows, FALSE)
    /\ UNCHANGED <<now, review_log, tags, tags0, again>>
    /\ UNCHANGED <<deckVars, callVars, tutorVars>>

\* get_analytics(mw).show_daily_report_dialog()
ShowDailyReportDialog(shows) == ShowDialog("show_dialog", shows)

\* check_and_show_daily_report(mw): the session-open entry point
CheckAndShowDailyReport(shows) ==
    IF should_show_daily_report(CurSessions, CurMarker, now)
    THEN ShowDialog("check_and_show", shows)
    ELSE /\ shows
         /\ inst' = TRUE
         /\ review_sessions' = CurSessions
         /\ last_report_date' = CurMarker
         /\ ret' = Ret("check_and_show", "none", FALSE, "none", FALSE, FALSE)
         /\ UNCHANGED <<now, conf, review_log, tags, tags0, again, generated, presented>>
         /\ UNCHANGED <<deckVars, callVars, tutorVars>>

\* _on_card_answered(reviewer, card, ease): the reviewer_did_answer_card hook
OnCardAnswered(card, ease) ==
    LET n == NoteOf(card)
        t == tag_note(tags[n]) IN
    /\ Len(review_log) < MaxReviewLog
    /\ review_log' = Append(review_log, <<card, ease, now>>)
    /\ tags' = IF IsWeakAnswer(ease) THEN [tags EXCEPT ![n] = t.tag] ELSE tags
    /\ again' = IF ease = 1 THEN again \cup {n} ELSE again
    /\ ret' = Ret("answer", "none", FALSE, "none", FALSE, IsWeakAnswer(ease) /\ t.wrote)
    /\ UNCHANGED <<now, inst, review_sessions, last_report_date, conf, tags0,
                   generated, presented>>
    /\ UNCHANGED <<deckVars, callVars, tutorVars>>

\* the "Create Practice Deck" button: get_analytics(mw)._create_practice_deck()
CreatePracticeDeck(fault) ==
    LET r == create_practice_deck(CurSessions, now, decks, fault) IN
    /\ Cardinality(DOMAIN r.decks) <= MaxDecks
    /\ inst' = TRUE
    /\ review_sessions' = CurSessions
    /\ last_report_date' = CurMarker
    /\ decks' = r.decks
    /\ ret' = [op |-> "sync", kind |-> "none", shown |-> r.shown,
               raised |-> r.raised, deck_id |-> r.deck_id,
               created |-> r.created, rebuilt |-> r.rebuilt,
               failed |-> r.failed]
    /\ UNCHANGED <<now, conf, review_log, tags, tags0, again, generated, presented>>
    /\ UNCHANGED <<callVars, tutorVars>>

\* the analytics module: tudr_analytics.py
NextAnalytics ==
    \/ Tick
    \/ Restart
    \/ \E c \in Cards, e \in Eases : LogReview(c, e)
    \/ ShouldShowDailyReport
    \/ GenerateDailyReport
    \/ \E shows \in BOOLEAN : ShowDailyReportDialog(shows)
    \/ \E shows \in BOOLEAN : CheckAndShowDailyReport(shows)

\* the reviewer hook: tudr_features.py
NextFeatures ==
    \/ Tick
    \/ Restart
    \/ \E c \in Cards, e \in Eases : OnCardAnswered(c, e)

Next == NextAnalytics \/ NextFeatures

\* The whole add-on.
Spec == Init /\ [][Next]_vars

\* The two modules share no state but the clock: tudr_features.py never
\* touches the analytics instance or col.conf, tudr_analytics.py never
\* touches _review_log or a note.  Each is checked on its own, the other
\* left in its initial state.
InitAnalytics == Init /\ tags = [n \in Notes |-> FALSE]
SpecAnalytics == InitAnalytics /\ [][NextAnalytics]_vars
SpecFeatures == Init /\ [][NextFeatures]_vars

\* Both modules in one specification, one of them at a time: a module takes
\* steps only while the other has left no trace in the state.  Its reachable
\* states are those of SpecAnalytics together with those of SpecFeatures.
FeaturesUntouched == review_log = <<>> /\ again = {} /\ tags = tags0
AnalyticsUntouched == ~inst /\ conf = NoConf
NextModules ==
    \/ FeaturesUntouched /\ NextAnalytics
    \/ AnalyticsUntouched /\ NextFeatures
SpecModules == InitAnalytics /\ [][NextModules]_vars

\* The practice deck: the log fills and the practice deck is asked for, with
\* every collaborator call able to fail.  _create_practice_deck reads the log
\* and the clock only, never last_report_date.
NextDeck ==
    \/ Tick
    \/ \E c \in Cards, e \in Eases : LogReview(c, e)
    \/ \E fault \in Faults : CreatePracticeDeck(fault)
SpecDeck == InitAnalytics /\ [][NextDeck]_vars

\* Live review: cards are answered in the reviewer (the hook runs), the
\* analytics entry point log_review is called by whoever calls it, and the
\* clock advances.  Nothing in the add-on calls log_review from the hook.
NextLive ==
    \/ Tick
    \/ \E c \in Cards, e \in Eases : OnCardAnswered(c, e)
    \/ \E c \in Cards, e \in Eases : LogReview(c, e)
SpecLive == InitAnalytics /\ [][NextLive]_vars

\* -------------------------------------------------------- the tutor dialog
\* A message of the conversation: its role and its content.  The content is
\* named by its kind and a number: the number of the _ask_openai call that a
\* user message starts or an assistant message ends.
Message(role, kind, n) == [role |-> role, kind |-> kind, n |-> n]

\* self._messages as TutorDialog.__init__ builds it
FirstMessages ==
    <<Message("system", "tutor", 0), Message("user", "card", 1)>>

\* what the user has typed into input_line when Send is clicked
Inputs == {<<>>, <<" ">>, <<"h", "i">>}

\* what a worker can meet: the openai import fails, OPENAI_API_KEY is not
\* set, the request raises, or the service answers
TutorServices == {"import_error", "no_key", "raises", "answers"}

\* worker() of _ask_openai: the messages handed to ChatCompletion.create
\* (none when the worker returns before the call) and the kind of text
\* returned; every exception ends in the except branch
worker(msgs, service) ==
    IF service = "import_error" THEN [sent |-> <<>>, text |-> "error"]
    ELSE IF service = "no_key" THEN [sent |-> <<>>, text |-> "no_key"]
    ELSE IF service = "raises" THEN [sent |-> msgs, text |-> "error"]
    ELSE [sent |-> msgs, text |-> "reply"]

\* mw.taskman.run_in_background(worker, done, uses_collection=False): the
\* task waits for a background thread
Queued(asked) ==
    [state |-> "queued", asked |-> asked, sent |-> <<>>, text |-> "none"]

\* TutorDialog(parent, question, answer): __init__ asks for the explanation
OpenTutorDialog ==
    /\ messages = <<>>
    /\ messages' = FirstMessages
    /\ tasks' = <<Queued(Len(messages'))>>
    /\ UNCHANGED <<now, inst, review_sessions, last_report_date, conf,
                   review_log, tags, tags0, again, generated, presented, ret,
                   deckVars, callVars>>

\* _on_send_clicked with input in input_line; nothing disables the Send
\* button while a request is pending
OnSendClicked(input) ==
    LET user_text == strip(input) IN
    /\ messages # <<>>
    /\ Len(tasks) <= MaxSends
    /\ IF user_text = <<>>
       THEN UNCHANGED tutorVars
       ELSE /\ messages' = Append(messages,
                                  Message("user", "typed", Len(tasks) + 1))
            /\ tasks' = Append(tasks, Queued(Len(messages')))
    /\ UNCHANGED <<now, inst, review_sessions, last_report_date, conf,
                   review_log, tags, tags0, again, generated, presented, ret,
                   deckVars, callVars>>

\* the worker of task i runs on a background thread: it reads self._messages
\* as the list is when it makes the request
Worker(i, service) ==
    LET w == worker(messages, service) IN
    /\ i \in DOMAIN tasks
    /\ tasks[i].state = "queued"
    /\ tasks' = [tasks EXCEPT ![i] = [state |-> "finished", asked |-> @.asked,
                                      sent |-> w.sent, text |-> w.text]]
    /\ UNCHANGED <<now, inst, review_sessions, last_report_date, conf,
                   review_log, tags, tags0, again, generated, presented, ret,
                   deckVars, callVars, messages>>

\* done(fut) of task i runs on the GUI thread once its worker has returned
Done(i) ==
    /\ i \in DOMAIN tasks
    /\ tasks[i].state = "finished"
    /\ messages' = Append(messages, Message("assistant", tasks[i].text, i))
    /\ tasks' = [tasks EXCEPT ![i].state = "done"]
    /\ UNCHANGED <<now, inst, review_sessions, last_report_date, conf,
                   review_log, tags, tags0, again, generated, presented, ret,
                   deckVars, callVars>>

\* The tutor dialog: it is opened, the user sends messages, and the workers
\* and their done callbacks run whenever the task manager runs them.
NextTutor ==
    \/ OpenTutorDialog
    \/ \E input \in Inputs : OnSendClicked(input)
    \/ \E i \in 1..(MaxSends + 1), service \in TutorServices : Worker(i, service)
    \/ \E i \in 1..(MaxSends + 1) : Done(i)
SpecTutor == InitAnalytics /\ [][NextTutor]_vars

\* ------------------------------------------------- methods on their own
\* The sequences over S of length at most n.
SeqsUpTo(S, n) == UNION {[1..k -> S] : k \in 0..n}

\* what get_weak_topics reads of a failed card: every deck and note type; a
\* second card text for the cards that reach the classifier
CardDatas ==
    {c \in [deckId : DeckIds, noteType : NoteTypes, question : {1, 2}] :
        c.question = 2 => (c.noteType = Basic /\ c.deckId # 2)}

TopicCalls ==
    [op : {"get_weak_topics"}, failed_cards : SeqsUpTo(CardDatas, MaxFailed),
     api_key : ApiKeys, service : Services]

\* self.get_weak_topics(failed_cards, api_key)
GetWeakTopics ==
    LET r == get_weak_topics(args.failed_cards, args.api_key, args.service) IN
    /\ args.op = "get_weak_topics"
    /\ out = NoCall
    /\ out' = [op |-> "get_weak_topics", weak_topics |-> r.weak_topics,
               topics |-> r.topics, raised |-> r.raised]
    /\ UNCHANGED <<now, inst, review_sessions, last_report_date, conf,
                   review_log, tags, tags0, again, generated, presented, ret,
                   deckVars, args, tutorVars>>

\* get_weak_topics, for every list of failed cards, credential and classifier
InitTopics ==
    /\ InitState
    /\ tags = [n \in Notes |-> FALSE]
    /\ args \in TopicCalls
    /\ out = NoCall
SpecTopics == InitTopics /\ [][GetWeakTopics]_vars

\* a day's log: correct answers of card 1, then the failed cards
DayLog(correct, failed, clock) ==
    [i \in 1..correct |-> ReviewData(1, Again + 1, DefaultTimeTaken, clock)]
    \o [i \in 1..Len(failed) |-> ReviewData(failed[i], Again, DefaultTimeTaken, clock)]

\* the logs of one day that give a report: at least one review
FormatCalls ==
    {[op |-> "format_daily_report",
      sessions |-> DayLog(correct, failed, [date |-> 1, tod |-> 1])] :
        <<correct, failed>> \in
            {cf \in (0..MaxCorrect) \X SeqsUpTo(Cards, MaxFailed) :
                cf[1] + Len(cf[2]) > 0}}

\* lines 182-192 of generate_daily_report, on the day after the log's day,
\* without a classifier credential: the performance is aggregated, the weak
\* topics are grouped and the text is formatted
FormatDailyReport ==
    LET clock == [date |-> 2, tod |-> 0]
        performance == get_yesterday_performance(args.sessions, clock)
        weak == get_weak_topics(performance.failedCardData, "",
                                [available |-> FALSE, request |-> "raises"])
    IN
    /\ args.op = "format_daily_report"
    /\ out = NoCall
    /\ out' = [op |-> "format_daily_report", performance |-> performance,
               report |-> format_daily_report(performance, weak.weak_topics)]
    /\ UNCHANGED <<now, inst, review_sessions, last_report_date, conf,
                   review_log, tags, tags0, again, generated, presented, ret,
                   deckVars, args, tutorVars>>

\* _format_daily_report, for every count of correct and failed answers
InitFormat ==
    /\ InitState
    /\ tags = [n \in Notes |-> FALSE]
    /\ args \in FormatCalls
    /\ out = NoCall
SpecFormat == InitFormat /\ [][FormatDailyReport]_vars

\* ------------------------------------------------------------------ claims
Perf == get_yesterday_performance(CurSessions, now)
WouldShow == should_show_daily_report(CurSessions, CurMarker, now)
WouldGenerate == generate_daily_report(CurSessions, CurMarker, now)

\* C1: once generate_daily_report has produced a report on the current date
\* (the marker is written), every later call of should_show_daily_report on
\* that date returns false and every later call of generate_daily_report
\* returns the "already generated" message without computing a report; this
\* holds of the calls made (ret) and of any call that could be made next.
C1_MarkerBlocksSameDay ==
    generated > 0 =>
        /\ ~WouldShow
        /\ WouldGenerate.kind = "already"
        /\ ~WouldGenerate.computed
        /\ ret.op = "should_show" => ret.kind = "false"
        /\ (ret.op \in {"generate", "show_dialog"} /\ ret.kind # "already") =>
               (ret.kind = "report" /\ generated = 1)

\* a later generate_daily_report call on the date of the persisted marker
C1_Witness ==
    /\ generated > 0
    /\ ret.op = "generate"
    /\ ret.kind = "already"
    /\ conf.lastReportDate = DateOf(now)

\* C2: on one calendar date the report is computed at most once and shown at
\* most once, however often the session is opened and whatever is logged.
C2_AtMostOncePerDay ==
    /\ generated <= 1
    /\ presented <= 1

\* the session-open entry point finds the report of the day already issued
C2_Witness ==
    /\ presented = 1
    /\ ret.op = "check_and_show"
    /\ ret.kind = "none"
    /\ Perf.totalCards > 0

\* C3 (as claimed): the marker is written only once the report has been
\* computed and shown; when the pipeline computed a report and failed before
\* the dialog ran, the marker is not the current date, so the next
\* session-open of the day retries.
C3_MarkerOnlyAfterPresentation ==
    (ret.op = "check_and_show" /\ ret.kind = "report" /\ ret.raised)
        => (CurMarker # DateOf(now) /\ WouldShow)

\* C4 (as claimed): on the date after the marker's date the guard check
\* should_show_daily_report returns true.
C4_GuardTrueNextDay ==
    (CurMarker # None /\ DateOf(now) = CurMarker + 1) => WouldShow

\* some logged review carries a timestamp of date d
LoggedOn(d) == \E i \in 1..Len(CurSessions) : DateOf(CurSessions[i].timestamp) = d

\* C4 (amended): on the date after the marker's date the date comparison of
\* the guard no longer blocks: should_show_daily_report returns true, and
\* generate_daily_report issues a report, exactly when a review was logged on
\* the marker's date (yesterday's window is not empty).
C4_GuardResetsNextDay ==
    (CurMarker # None /\ DateOf(now) = CurMarker + 1) =>
        /\ WouldShow <=> LoggedOn(CurMarker)
        /\ WouldGenerate.kind = "report" <=> LoggedOn(CurMarker)
        /\ ret.op = "should_show" => (ret.kind = "true" <=> LoggedOn(CurMarker))

\* the day after a report, with reviews logged on the report's date, the
\* guard was asked and answered true
C4_Witness ==
    /\ CurMarker # None
    /\ DateOf(now) = CurMarker + 1
    /\ ret.op = "should_show"
    /\ ret.kind = "true"

\* C5 (as claimed): with no event in yesterday's window no user-facing text
\* is displayed and the marker is not written.
C5_NothingShownWhenEmpty ==
    Perf.totalCards = 0 =>
        /\ ret.shown = "none"
        /\ CurMarker # DateOf(now)

\* C5 (amended): with no event in yesterday's window, aggregation returns
\* total 0, no report is computed or shown and the marker is not written;
\* check_and_show_daily_report displays nothing, while generate_daily_report
\* returns the "No cards studied yesterday" notice, which a direct call of
\* show_daily_report_dialog displays.
C5_ReportSuppressedWhenEmpty ==
    Perf.totalCards = 0 =>
        /\ ~WouldShow
        /\ WouldGenerate.kind = "nocards"
        /\ WouldGenerate.marker = CurMarker
        /\ CurMarker # DateOf(now)
        /\ generated = 0 /\ presented = 0
        /\ ~ret.computed
        /\ ret.kind \in {"none", "false", "nocards"}
        /\ ret.shown \in {"none", "nocards"}
        /\ ret.op = "check_and_show" => (ret.kind = "none" /\ ret.shown = "none")
        /\ ret.op = "generate" => ret.kind = "nocards"
        /\ (ret.op = "show_dialog" /\ ~ret.raised) => ret.shown = "nocards"

\* the session is opened on a day whose yesterday has no review, although
\* the log is not empty
C5_Witness ==
    /\ Perf.totalCards = 0
    /\ Len(CurSessions) > 0
    /\ ret.op = "check_and_show"
    /\ ret.shown = "none"

\* ---- the aggregator
\* timestamps in chronological order
Before(a, b) == a.date < b.date \/ (a.date = b.date /\ a.tod < b.tod)

\* yesterday's window [WindowStart, WindowEnd): midnight to midnight
WindowStart == [date |-> now.date - 1, tod |-> 0]
WindowEnd == [date |-> now.date, tod |-> 0]
InWindow(ts) == ~Before(ts, WindowStart) /\ Before(ts, WindowEnd)

\* C6: whatever the log holds, the summary of get_yesterday_performance has
\* correctCards + failedCards = totalCards, failedCards is the length of the
\* failed list, and the failed list is the ease-1 events of yesterday's
\* window in their log order.
C6_SummaryConsistent ==
    /\ Perf.correctCards + Perf.failedCards = Perf.totalCards
    /\ Perf.failedCards = Len(Perf.failedCardData)
    /\ Perf.failedCardData =
           SelectSeq(CurSessions,
                     LAMBDA e : e.ease = 1 /\ e.timestamp.date = now.date - 1)

\* two different cards failed yesterday
C6_Witness ==
    /\ Perf.failedCards = 2
    /\ Perf.failedCardData[1].cardId # Perf.failedCardData[2].cardId
    /\ ret.op = "generate"

\* C7: totalCards is the number of logged events whose timestamp lies in the
\* half-open window WindowStart <= timestamp < WindowEnd of the previous
\* calendar day: each event of yesterday counts once, no other event counts.
C7_CountsExactlyWindow ==
    Perf.totalCards =
        Cardinality({i \in 1..Len(CurSessions) : InWindow(CurSessions[i].timestamp)})

\* one event logged at yesterday's midnight is counted, one logged at
\* today's midnight is not
C7_Witness ==
    /\ Len(CurSessions) = 2
    /\ CurSessions[1].timestamp = WindowStart
    /\ CurSessions[2].timestamp = WindowEnd
    /\ Perf.totalCards = 1

\* ---- the review log
IsPrefix(a, b) == Len(a) <= Len(b) /\ SubSeq(b, 1, Len(a)) = a

C8_TagIffFailed ==
    \A n \in Notes : tags[n] <=> (tags0[n] \/ n \in again)

\* a note was tagged by an ease-1 answer, a later answer with another ease
\* left the tags alone, and an untagged note remains
C8_Witness ==
    /\ \E n \in Notes : tags[n] /\ ~tags0[n]
    /\ \E n \in Notes : ~tags[n]
    /\ Len(review_log) = 2
    /\ review_log[1][2] = 1
    /\ review_log[2][2] # 1

\* C9: tagging is idempotent.  When a card of a note that already has the
\* tag is answered with ease 1, _tag_note leaves the tags as they are, calls
\* neither add_tag nor flush and raises nothing; tagging a second time gives
\* the tag state of tagging once.
C9_TagIdempotent ==
    [][(/\ ret'.op = "answer"
        /\ review_log'[Len(review_log')][2] = 1
        /\ tags[NoteOf(review_log'[Len(review_log')][1])])
       => (/\ tags' = tags
           /\ ~ret'.wrote
           /\ ~ret'.raised
           /\ \A b \in BOOLEAN : tag_note(tag_note(b).tag).tag = tag_note(b).tag)]_vars

\* the same note was failed twice: the second ease-1 answer wrote nothing
C9_Witness ==
    /\ ret.op = "answer"
    /\ ~ret.wrote
    /\ Len(review_log) = 2
    /\ review_log[1][2] = 1
    /\ review_log[2][2] = 1
    /\ NoteOf(review_log[1][1]) = NoteOf(review_log[2][1])
    /\ \E n \in Notes : ~tags0[n] /\ tags[n]

\* C11: the practice deck is made once, by lookup-or-create: at no time do
\* two decks carry the name "Tudr - Daily Practice", and a sync that finds a
\* deck of that name adds no deck and works on the deck found.
C11_OneDeckReused ==
    [][/\ Cardinality(DecksNamed(decks', TudrDeckName)) <= 1
       /\ (ret'.op = "sync" /\ DecksNamed(decks, TudrDeckName) # {}) =>
              /\ DOMAIN decks' = DOMAIN decks
              /\ ~ret'.created
              /\ ret'.deck_id # None => ret'.deck_id \in DecksNamed(decks, TudrDeckName)]_vars

\* a second successful sync, on a later day with other cards, has reused the
\* deck the first one made
C11_Witness ==
    /\ ret.op = "sync"
    /\ ret.rebuilt
    /\ ~ret.created
    /\ Cardinality(DecksNamed(decks, TudrDeckName)) = 1
    /\ now.date = 3

\* C12: after a sync that rebuilt the deck, the deck's selection is a single
\* term on the weakness tag (every note tagged TudrWeak) and not a list of
\* card ids.
C12_DeckSelectsWeakTag ==
    (ret.op = "sync" /\ ret.rebuilt) =>
        decks[ret.deck_id].search.field = "tag"

\* C13: the sync is idempotent: when a sync that met no failure is followed
\* by another sync with nothing logged and no clock tick in between, the
\* second one leaves every deck and its definition as they were, adds no
\* deck, and, unless a collaborator fails, works on the same deck.
C13_SyncIdempotent ==
    [][(ret.op = "sync" /\ ~ret.failed /\ ret'.op = "sync") =>
          /\ decks' = decks
          /\ ~ret'.created
          /\ ~ret'.failed => (ret'.deck_id = ret.deck_id /\ ret'.rebuilt = ret.rebuilt)]_vars

\* a sync has created and rebuilt the deck; the same sync can run again
C13_Witness ==
    /\ ret.op = "sync"
    /\ ret.created
    /\ ret.rebuilt
    /\ decks[ret.deck_id].search.ids # <<>>
    /\ ENABLED CreatePracticeDeck("none")

\* C14: the sync is all-or-nothing: a sync in which a collaborator call
\* (lookup, creation or rebuild) failed leaves the decks and their
\* definitions exactly as they were before it.
C14_FailedSyncChangesNothing ==
    [][(ret'.op = "sync" /\ ret'.failed) => decks' = decks]_vars

\* C18: a failure of the deck manager during a sync is caught inside the
\* add-on and shown as a short message: no exception leaves
\* _create_practice_deck, and the guard state is what it was.
C18_SyncFailureSurfaced ==
    (ret.op = "sync" /\ ret.failed) =>
        /\ ~ret.raised
        /\ ret.shown = "error"
        /\ conf = SavedConf(review_sessions, last_report_date)

\* the first failed card that was given the label topic
FirstCardOf(topic) ==
    CHOOSE k \in DOMAIN out.topics :
        /\ out.topics[k] = topic
        /\ \A m \in 1..(k - 1) : out.topics[m] # topic

RECURSIVE SumCounts(_)
SumCounts(items) ==
    IF items = <<>> THEN 0 ELSE Head(items).count + SumCounts(Tail(items))

\* C15: every failed card gets its label by the three-tier policy: the deck
\* name when it holds a subject keyword in any letter case (the deck "Math"),
\* otherwise the note type name when it holds a note-type keyword ("Vocab"),
\* otherwise the classifier's answer; the label is "Unknown" whenever the
\* classifier is unavailable, has no credential or fails; and no error leaves
\* get_weak_topics.
C15_ThreeTierTopic ==
    out.op = "get_weak_topics" =>
        /\ ~out.raised
        /\ Len(out.topics) = Len(args.failed_cards)
        /\ \A i \in DOMAIN args.failed_cards :
              LET c == args.failed_cards[i]
                  t == out.topics[i] IN
              /\ c.deckId = 2 => t = <<"M", "a", "t", "h">>
              /\ (c.deckId # 2 /\ c.noteType = Vocab) => t = <<"V", "o", "c", "a", "b">>
              /\ (c.deckId # 2 /\ c.noteType = Basic) =>
                    IF \/ ~args.service.available
                       \/ args.api_key = ""
                       \/ args.service.request = "raises"
                    THEN t = <<"U", "n", "k", "n", "o", "w", "n">>
                    ELSE IF c.question = 1
                    THEN t = <<"A", "l", "g", "e", "b", "r", "a">>
                    ELSE t = <<"M", "a", "t", "h">>

\* three failed cards, one labelled by each tier, the classifier request of
\* the third raising with the library and a credential present
C15_Witness ==
    /\ out.op = "get_weak_topics"
    /\ out.topics = <<MathDeckName, Vocab, Unknown>>
    /\ args.failed_cards[3].deckId = 3
    /\ args.service.available
    /\ args.api_key # ""
    /\ args.service.request = "raises"

\* C16: the mapping get_weak_topics returns is ordered by count, descending,
\* topics of equal count in the order in which they were first met in the
\* failed list; each count is the number of failed cards given that label,
\* and the counts add up to the number of failed cards.
C16_SortedByCountStable ==
    out.op = "get_weak_topics" =>
        LET w == out.weak_topics IN
        /\ \A i, j \in DOMAIN w :
              i < j =>
                  /\ w[i].count >= w[j].count
                  /\ w[i].topic # w[j].topic
                  /\ w[i].count = w[j].count =>
                         FirstCardOf(w[i].topic) < FirstCardOf(w[j].topic)
        /\ \A i \in DOMAIN w :
              w[i].count = Cardinality({k \in DOMAIN out.topics :
                                           out.topics[k] = w[i].topic})
        /\ SumCounts(w) = Len(args.failed_cards)

\* a topic met second but counted twice comes first, and two topics of one
\* count keep the order of the failed list
C16_Witness ==
    /\ out.op = "get_weak_topics"
    /\ Len(out.weak_topics) = 2
    /\ Len(args.failed_cards) = 3
    /\ out.weak_topics[1].count = 2
    /\ out.weak_topics[1].topic = out.topics[2]
    /\ out.weak_topics[2].topic = out.topics[1]

\* C17: the report has exactly one encouragement message, chosen by accuracy
\* (correct answers out of all of the day): the top message at 90 percent or
\* more, the middle one from 75 percent up to below 90, the low one
\* otherwise; and the practice-deck note is there exactly when at least one
\* answer failed.
C17_OneEncouragementByAccuracy ==
    out.op = "format_daily_report" =>
        LET total == Len(args.sessions)
            correct == Cardinality({i \in DOMAIN args.sessions :
                                       args.sessions[i].ease > Again})
            closing == out.report.closing
            said(m) == Cardinality({i \in DOMAIN closing : closing[i] = m})
        IN
        /\ said("excellent") + said("good") + said("keep_going") = 1
        /\ said("excellent") = 1 <=> 100 * correct >= 90 * total
        /\ said("good") = 1 <=> (100 * correct >= 75 * total /\ 100 * correct < 90 * total)
        /\ said("keep_going") = 1 <=> 100 * correct < 75 * total
        /\ said("practice_deck") = 1 <=> total - correct > 0
        /\ said("practice_deck") <= 1

\* nine correct answers out of ten: exactly 90 percent, with one failure
C17_Witness ==
    /\ out.op = "format_daily_report"
    /\ Len(args.sessions) = 10
    /\ out.performance.correctCards = 9
    /\ out.report.closing = <<"excellent", "practice_deck">>

\* the cards answered through the reviewer hook on the day before today
AnsweredYesterday ==
    {i \in DOMAIN review_log : DateOf(review_log[i][3]) = Yesterday(now)}

\* C19: the log is fed by live review: every card answered through the
\* reviewer hook on a day is an event that get_yesterday_performance counts
\* on the next day, so the total it returns is at least the number of cards
\* answered the day before.
C19_HookAnswersCounted ==
    Cardinality(AnsweredYesterday) <= Perf.totalCards

\* C20: when log_card_review or a generate_daily_report that issued a report
\* has returned, the persisted col.conf["tudrAnalytics"] holds the in-memory
\* review_sessions and last_report_date, and an instance loaded from it has
\* the same two values.
C20_PersistedMirrorsMemory ==
    (ret.op = "log_review" \/ (ret.op = "generate" /\ ret.kind = "report")) =>
        /\ inst
        /\ conf.present
        /\ conf.reviewSessions = review_sessions
        /\ conf.lastReportDate = last_report_date
        /\ LoadSessions(conf) = review_sessions
        /\ LoadMarker(conf) = last_report_date

\* a report was issued: the log and today's marker are both persisted
C20_Witness ==
    /\ ret.op = "generate"
    /\ ret.kind = "report"
    /\ last_report_date = DateOf(now)
    /\ conf.lastReportDate = DateOf(now)
    /\ conf.reviewSessions # <<>>

\* the system message, then user and assistant messages in turn
Alternates(msgs) ==
    \A k \in DOMAIN msgs :
        msgs[k].role = IF k = 1 THEN "system"
                       ELSE IF k % 2 = 0 THEN "user" ELSE "assistant"

\* C21: under any interleaving of sends and background completions, every
\* conversation handed to the service is the system message followed by user
\* and assistant messages in turn, and every assistant message of the
\* conversation stands directly behind the user message whose request it
\* answers.
C21_RepliesFollowTheirQuestions ==
    /\ \A i \in DOMAIN tasks : Alternates(tasks[i].sent)
    /\ \A k \in DOMAIN messages :
          messages[k].role = "assistant" =>
              tasks[messages[k].n].asked = k - 1

====
